---------------------------- MODULE Spec2Model ----------------------------
(***************************************************************************)
(* A model of the Clarice interpreter: the scanner (lexer.rs), the         *)
(* recursive-descent parser (parser.rs), the checking pass                 *)
(* (type_checker.rs, symbol_table.rs), the tree-walking evaluator          *)
(* (interpreter.rs) and the per-line entry point clarice_eval (main.rs).   *)
(*                                                                         *)
(* Text is a sequence of one-character strings, so that scanning, the      *)
(* rendering of values and iteration over the characters of a string are   *)
(* computed, not assumed.                                                  *)
(***************************************************************************)
EXTENDS Integers, Sequences, FiniteSets, TLC

VARIABLES
    phase,         \* "read": interactive() waits for a line; "eval": inside Environment::interpret; "exited"
    input,         \* the line handed to the current / last clarice_eval invocation
    lines_read,    \* number of clarice_eval invocations started so far
    program,       \* the statements parse() returned for the current line (parsed_program)
    symbol_table,  \* the TypeChecker's SymbolTable as check() left it
    variables,     \* Environment.variables of the current invocation
    stack,         \* the active interpret() calls: the statements each has still to execute
    output,        \* lines execute_print wrote to stdout during the current invocation
    diagnostics,   \* diagnostics of the current invocation: parser println!s and evaluator eprintln!s
    iterations,    \* number of body evaluations performed by the most recent execute_iter
    result,        \* what the last finished clarice_eval returned
    first          \* the first finished invocation of the session: its input and what it produced

vars == <<phase, input, lines_read, program, symbol_table, variables, stack,
          output, diagnostics, iterations, result, first>>

(***************************************************************************)
(* Bounds of the model.                                                    *)
(***************************************************************************)
\* longest line, in words, of the exhaustive word family
MaxWords == 3
\* longest line, in statement phrases, of the statement family
MaxPhrases == 2
\* longest numeral, in digits, of the numeral family
MaxDigits == 2
\* number of lines a session of the read-eval-print loop reads
MaxLines == 2
\* the diagnostics an unbounded `loop` appends are kept up to this length
MaxLog == 3

\* `let v = ...;` followed by the rest of the function body
Bind(v, F(_)) == F(v)

(***************************************************************************)
(* Characters.                                                             *)
(***************************************************************************)
\* Option<char>::None
NoChar == "None"

Digits == <<"0", "1", "2", "3", "4", "5", "6", "7", "8", "9">>

LowerCase == {"a", "b", "c", "d", "e", "f", "g", "h", "i", "j", "k", "l", "m",
              "n", "o", "p", "q", "r", "s", "t", "u", "v", "w", "x", "y", "z"}

UpperCase == {"A", "B", "C", "D", "E", "F", "G", "H", "I", "J", "K", "L", "M",
              "N", "O", "P", "Q", "R", "S", "T", "U", "V", "W", "X", "Y", "Z"}

\* char::is_whitespace
is_whitespace(c) == c \in {" ", "\t", "\n", "\r"}

\* char::is_digit(10)
is_digit(c) == \E i \in 1..Len(Digits) : Digits[i] = c

\* char::is_alphabetic
is_alphabetic(c) == c \in LowerCase \cup UpperCase

\* char::is_alphanumeric
is_alphanumeric(c) == is_alphabetic(c) \/ is_digit(c)

(***************************************************************************)
(* Integers and their decimal text.                                        *)
(***************************************************************************)
digit_value(c) == (CHOOSE i \in 1..Len(Digits) : Digits[i] = c) - 1

RECURSIVE strip_leading_zeros(_)
strip_leading_zeros(d) ==
    IF Len(d) > 1 /\ Head(d) = "0" THEN strip_leading_zeros(Tail(d)) ELSE d

\* the decimal text of i64::MAX, 9223372036854775807
I64MaxDigits == <<"9", "2", "2", "3", "3", "7", "2", "0", "3", "6", "8", "5", "4", "7", "7", "5", "8", "0", "7">>

\* a and b are digit texts of the same length: a is the larger number
RECURSIVE digits_greater(_, _)
digits_greater(a, b) ==
    IF a = <<>> THEN FALSE
    ELSE IF digit_value(Head(a)) # digit_value(Head(b))
         THEN digit_value(Head(a)) > digit_value(Head(b))
         ELSE digits_greater(Tail(a), Tail(b))

\* the number a digit text denotes exceeds i64::MAX
exceeds_i64(d) ==
    Bind(strip_leading_zeros(d), LAMBDA s :
        \/ Len(s) > Len(I64MaxDigits)
        \/ Len(s) = Len(I64MaxDigits) /\ digits_greater(s, I64MaxDigits))

RECURSIVE decimal_value(_, _)
decimal_value(d, acc) ==
    IF d = <<>> THEN acc
    ELSE decimal_value(Tail(d), acc * 10 + digit_value(Head(d)))

\* a mutation of parse_i64: the last digit is never accumulated
parse_i64_drops_last_digit(num_str) ==
    IF exceeds_i64(num_str) THEN 0
    ELSE decimal_value(SubSeq(num_str, 1, Len(num_str) - 1), 0)

\* num_str.parse::<i64>().unwrap_or(0) on a non-empty run of digits:
\* the value, or 0 when it does not fit in an i64
parse_i64(num_str) ==
    IF exceeds_i64(num_str) THEN 0 ELSE decimal_value(num_str, 0)

\* Display of an i64, as println!("{}", i) writes it
RECURSIVE i64_to_string(_)
i64_to_string(i) ==
    IF i < 0 THEN <<"-">> \o i64_to_string(0 - i)
    ELSE IF i < 10 THEN <<Digits[i + 1]>>
    ELSE i64_to_string(i \div 10) \o <<Digits[(i % 10) + 1]>>

(***************************************************************************)
(* Tokens (lexer.rs, enum Token).                                          *)
(***************************************************************************)
Keyword(text) == [type |-> "Keyword", text |-> text]
Identifier(text) == [type |-> "Identifier", text |-> text]
IntegerLiteral(num) == [type |-> "IntegerLiteral", int |-> num]
StringLiteral(text) == [type |-> "StringLiteral", text |-> text]
Operator(text) == [type |-> "Operator", text |-> text]
Separator(text) == [type |-> "Separator", text |-> text]
EOF == [type |-> "EOF"]

\* the texts tokenize_identifier_or_keyword classifies as keywords
Keywords == {<<"w", "i", "t", "h">>, <<"s", "e", "t">>, <<"a", "s">>, <<"t", "o">>, <<"t", "h", "e", "n">>, <<"d", "o">>, <<"p", "r", "i", "n", "t">>,
             <<"w", "h", "e", "r", "e">>, <<"l", "o", "o", "p">>, <<"i", "t", "e", "r">>}

OperatorChars == {"+", "-", "*", "/", "="}

SeparatorChars == {"(", ")", "{", "}", "[", "]", ":", ";", ",", "."}

(***************************************************************************)
(* The scanner (lexer.rs, struct Lexer).                                   *)
(***************************************************************************)
\* self.input.chars().nth(n)
chars_nth(text, n) == IF n < Len(text) THEN text[n + 1] ELSE NoChar

lexer_advance(l) ==
    [l EXCEPT !.current_char = chars_nth(l.input, l.position),
              !.position = l.position + 1]

lexer_new(text) ==
    lexer_advance([input |-> text, position |-> 0, current_char |-> NoChar])

RECURSIVE skip_whitespace(_)
skip_whitespace(l) ==
    IF l.current_char # NoChar /\ is_whitespace(l.current_char)
    THEN skip_whitespace(lexer_advance(l))
    ELSE l

lexer_peek(l) == chars_nth(l.input, l.position)

\* the while loop of tokenize_integer: the maximal run of digits
RECURSIVE take_digits(_, _)
take_digits(l, num_str) ==
    IF l.current_char # NoChar /\ is_digit(l.current_char)
    THEN take_digits(lexer_advance(l), Append(num_str, l.current_char))
    ELSE [lexer |-> l, text |-> num_str]

tokenize_integer(l) ==
    Bind(take_digits(l, <<>>), LAMBDA run :
        [lexer |-> run.lexer, token |-> IntegerLiteral(parse_i64(run.text))])

\* the while loop of tokenize_identifier_or_keyword
RECURSIVE take_identifier(_, _)
take_identifier(l, identifier) ==
    IF l.current_char # NoChar
       /\ (is_alphanumeric(l.current_char) \/ l.current_char = "_")
    THEN take_identifier(lexer_advance(l), Append(identifier, l.current_char))
    ELSE [lexer |-> l, text |-> identifier]

tokenize_identifier_or_keyword(l) ==
    Bind(take_identifier(l, <<>>), LAMBDA run :
        [lexer |-> run.lexer,
         token |-> IF run.text \in Keywords THEN Keyword(run.text)
                   ELSE Identifier(run.text)])

\* the while loop of tokenize_string_literal
RECURSIVE take_string(_, _)
take_string(l, string_literal) ==
    IF l.current_char = NoChar THEN [lexer |-> l, text |-> string_literal]
    ELSE IF l.current_char = "\"" THEN [lexer |-> lexer_advance(l), text |-> string_literal]
    ELSE take_string(lexer_advance(l), Append(string_literal, l.current_char))

tokenize_string_literal(l) ==
    Bind(take_string(lexer_advance(l), <<>>), LAMBDA run :
        [lexer |-> run.lexer, token |-> StringLiteral(run.text)])

RECURSIVE get_next_token(_)
get_next_token(l) ==
    Bind(l.current_char, LAMBDA c :
        IF c = NoChar THEN [lexer |-> l, token |-> EOF]
        ELSE IF is_whitespace(c) THEN get_next_token(skip_whitespace(l))
        ELSE IF is_digit(c) THEN tokenize_integer(l)
        ELSE IF is_alphabetic(c) THEN tokenize_identifier_or_keyword(l)
        ELSE IF c \in OperatorChars
             THEN [lexer |-> lexer_advance(l), token |-> Operator(<<c>>)]
        ELSE IF c \in SeparatorChars
             THEN [lexer |-> lexer_advance(l), token |-> Separator(<<c>>)]
        ELSE IF c = "\"" THEN tokenize_string_literal(l)
        ELSE get_next_token(lexer_advance(l)))

(***************************************************************************)
(* The syntax tree (parser.rs, enums Statement and Expression).            *)
(* A Program is the sequence of its statements.  An Option is a sequence   *)
(* of length 0 (None) or 1 (Some).                                         *)
(***************************************************************************)
IdentifierExpr(id) == [kind |-> "Identifier", name |-> id]
IntegerLiteralExpr(num) == [kind |-> "IntegerLiteral", int |-> num]
StringLiteralExpr(s) == [kind |-> "StringLiteral", str |-> s]
BooleanLiteralExpr(b) == [kind |-> "BooleanLiteral", bool |-> b]
ListLiteralExpr(l) == [kind |-> "ListLiteral", items |-> l]
FunctionCallExpr(n, f) == [kind |-> "FunctionCall", name |-> n, args |-> f]

WithStatement(id, e) == [kind |-> "With", identifier |-> id, expression |-> e]
SetStatement(v, e) == [kind |-> "Set", variable |-> v, expression |-> e]
AsStatement(id, e) == [kind |-> "As", identifier |-> id, expression |-> e]
ToStatement(id, e) == [kind |-> "To", identifier |-> id, expression |-> e]
ThenStatement(s) == [kind |-> "Then", statement |-> s]
DoStatement(e, s) == [kind |-> "Do", expression |-> e, statement |-> s]
PrintStatement(e) == [kind |-> "Print", expression |-> e]
WhereStatement(c, t, f) ==
    [kind |-> "Where", condition |-> c, true_branch |-> t, false_branch |-> f]
LoopStatement(e) == [kind |-> "Loop", expression |-> e]
IterStatement(v, i, e) ==
    [kind |-> "Iter", variable |-> v, iterable |-> i, expression |-> e]
ExpressionStatement(e) == [kind |-> "Expression", expression |-> e]

(***************************************************************************)
(* The placeholder texts the parser substitutes.                           *)
(***************************************************************************)
ErrorName == <<"e", "r", "r", "o", "r">>
UnknownKeywordText == <<"U", "n", "k", "n", "o", "w", "n", " ", "K", "e", "y", "w", "o", "r", "d", ".">>
UnexpectedIdentifierText == <<"U", "n", "e", "x", "p", "e", "c", "t", "e", "d", " ", "I", "d", "e", "n", "t", "i", "f", "i", "e", "r", ".">>
NoStatementText == <<"N", "o", " ", "S", "t", "a", "t", "e", "m", "e", "n", "t", ".">>
NoExpressionText == <<"N", "o", " ", "E", "x", "p", "r", "e", "s", "s", "i", "o", "n", ".">>
NoExpressionWithText == <<"N", "o", " ", "E", "x", "p", "r", "e", "s", "s", "i", "o", "n", " ", "(", "W", "i", "t", "h", ")">>
NoExpressionSetText == <<"N", "o", " ", "E", "x", "p", "r", "e", "s", "s", "i", "o", "n", " ", "(", "S", "e", "t", ")">>
NoExpressionAsText == <<"N", "o", " ", "E", "x", "p", "r", "e", "s", "s", "i", "o", "n", " ", "(", "A", "s", ")">>
NoExpressionToText == <<"N", "o", " ", "E", "x", "p", "r", "e", "s", "s", "i", "o", "n", " ", "(", "T", "o", ")">>
NoIterableIterText == <<"N", "o", " ", "I", "t", "e", "r", "a", "b", "l", "e", " ", "(", "I", "t", "e", "r", ")">>
NoIdentifierIterText == <<"N", "o", " ", "I", "d", "e", "n", "t", "i", "f", "i", "e", "r", " ", "(", "I", "t", "e", "r", ")", ".">>

(***************************************************************************)
(* The parser (parser.rs, struct Parser).  A parser state holds the lexer, *)
(* the current token and the diagnostics printed so far; every parse_*     *)
(* operator returns the parser state it leaves and the node it built.      *)
(***************************************************************************)
parser_advance(p) ==
    Bind(get_next_token(p.lexer), LAMBDA next :
        [p EXCEPT !.lexer = next.lexer, !.current_token = next.token])

parser_new(l) ==
    parser_advance([lexer |-> l, current_token |-> EOF, log |-> <<>>])

\* println!(...) of a parser diagnostic; the message is kept up to the `{:?}`
\* of the token it was printed for
parser_println(p, msg) ==
    [p EXCEPT !.log = Append(@, [stream |-> "stdout", msg |-> msg])]

\* every arm of the match advances past the current token; the last arm
\* prints a diagnostic first
parse_expression(p) ==
    Bind(p.current_token, LAMBDA token :
        [parser |-> parser_advance(
                        IF token.type \in {"Identifier", "IntegerLiteral", "StringLiteral"}
                        THEN p
                        ELSE parser_println(p, "Expected an expression")),
         node |-> IF token.type = "Identifier" THEN IdentifierExpr(token.text)
                  ELSE IF token.type = "IntegerLiteral" THEN IntegerLiteralExpr(token.int)
                  ELSE IF token.type = "StringLiteral" THEN StringLiteralExpr(token.text)
                  ELSE StringLiteralExpr(NoExpressionText)])

\* a variant of parse_with_statement that skips the token it rejects
parse_with_statement_skips_rejected(p) ==
    Bind(parser_advance(p), LAMBDA p1 :
        IF p1.current_token.type # "Identifier"
        THEN [parser |-> parser_advance(
                             parser_println(p1, "Expected identifier after 'with' keyword")),
              node |-> WithStatement(ErrorName, StringLiteralExpr(NoExpressionWithText))]
        ELSE Bind(parse_expression(parser_advance(p1)), LAMBDA e :
                 [parser |-> e.parser,
                  node |-> WithStatement(p1.current_token.text, e.node)]))

parse_with_statement(p) ==
    Bind(parser_advance(p), LAMBDA p1 :
        IF p1.current_token.type # "Identifier"
        THEN [parser |-> parser_println(p1, "Expected identifier after 'with' keyword"),
              node |-> WithStatement(ErrorName, StringLiteralExpr(NoExpressionWithText))]
        ELSE Bind(parse_expression(parser_advance(p1)), LAMBDA e :
                 [parser |-> e.parser,
                  node |-> WithStatement(p1.current_token.text, e.node)]))

parse_set_statement(p) ==
    Bind(parser_advance(p), LAMBDA p1 :
        IF p1.current_token.type # "Identifier"
        THEN [parser |-> parser_println(p1, "Expected identifier after 'set' keyword"),
              node |-> SetStatement(ErrorName, StringLiteralExpr(NoExpressionSetText))]
        ELSE Bind(parser_advance(p1), LAMBDA p2 :
                 IF ~(p2.current_token.type = "Keyword" /\ p2.current_token.text = <<"t", "o">>)
                 THEN [parser |-> parser_println(p2, "Expected 'to' after variable name"),
                       node |-> SetStatement(ErrorName, StringLiteralExpr(NoExpressionSetText))]
                 ELSE Bind(parse_expression(parser_advance(p2)), LAMBDA e :
                          [parser |-> e.parser,
                           node |-> SetStatement(p1.current_token.text, e.node)])))

parse_as_statement(p) ==
    Bind(parser_advance(p), LAMBDA p1 :
        IF p1.current_token.type # "Identifier"
        THEN [parser |-> parser_println(p1, "Expected identifier after 'as' keyword"),
              node |-> AsStatement(ErrorName, StringLiteralExpr(NoExpressionAsText))]
        ELSE Bind(parse_expression(parser_advance(p1)), LAMBDA e :
                 [parser |-> e.parser,
                  node |-> AsStatement(p1.current_token.text, e.node)]))

parse_to_statement(p) ==
    Bind(parser_advance(p), LAMBDA p1 :
        IF p1.current_token.type # "Identifier"
        THEN [parser |-> parser_println(p1, "Expected identifier after 'to' keyword"),
              node |-> ToStatement(ErrorName, StringLiteralExpr(NoExpressionToText))]
        ELSE Bind(parse_expression(parser_advance(p1)), LAMBDA e :
                 [parser |-> e.parser,
                  node |-> ToStatement(p1.current_token.text, e.node)]))

parse_print_statement(p) ==
    Bind(parse_expression(parser_advance(p)), LAMBDA e :
        [parser |-> e.parser, node |-> PrintStatement(e.node)])

parse_loop_statement(p) ==
    Bind(parse_expression(parser_advance(p)), LAMBDA e :
        [parser |-> e.parser, node |-> LoopStatement(e.node)])

\* the first expression parsed after the variable becomes the body
\* (`expression`), the second one the iterable
parse_iter_statement(p) ==
    Bind(parser_advance(p), LAMBDA p1 :
        IF p1.current_token.type # "Identifier"
        THEN [parser |-> parser_println(p1, "Expected identifier after 'iter' keyword"),
              node |-> IterStatement(ErrorName,
                                     StringLiteralExpr(NoIterableIterText),
                                     StringLiteralExpr(NoIdentifierIterText))]
        ELSE Bind(parse_expression(parser_advance(p1)), LAMBDA expression :
             Bind(parse_expression(expression.parser), LAMBDA iterable :
                 [parser |-> iterable.parser,
                  node |-> IterStatement(p1.current_token.text,
                                         iterable.node, expression.node)])))

RECURSIVE parse_statement(_)
RECURSIVE parse_program_loop(_, _)

\* a variant of parse_program_loop that also stops in front of `otherwise`
parse_program_loop_stops_at_otherwise(p, statements) ==
    IF p.current_token.type = "EOF"
       \/ (p.current_token.type \in {"Keyword", "Identifier"}
              /\ p.current_token.text = <<"o", "t", "h", "e", "r", "w", "i", "s", "e">>)
    THEN [parser |-> p, node |-> statements]
    ELSE Bind(parse_statement(p), LAMBDA s :
             parse_program_loop(s.parser, Append(statements, s.node)))

\* the while loop of parse_program
parse_program_loop(p, statements) ==
    IF p.current_token.type = "EOF" THEN [parser |-> p, node |-> statements]
    ELSE Bind(parse_statement(p), LAMBDA s :
             parse_program_loop(s.parser, Append(statements, s.node)))

parse_program(p) == parse_program_loop(p, <<>>)

parse_then_statement(p) ==
    Bind(parse_statement(parser_advance(p)), LAMBDA s :
        [parser |-> s.parser, node |-> ThenStatement(s.node)])

parse_do_statement(p) ==
    Bind(parse_expression(parser_advance(p)), LAMBDA e :
    Bind(parse_statement(e.parser), LAMBDA s :
        [parser |-> s.parser, node |-> DoStatement(e.node, s.node)]))

\* a variant of parse_where_statement whose true branch is one statement
parse_where_statement_one_statement(p) ==
    Bind(parse_expression(parser_advance(p)), LAMBDA condition :
    Bind(parse_statement(condition.parser), LAMBDA true_branch :
        IF true_branch.parser.current_token.type = "Keyword"
           /\ true_branch.parser.current_token.text = <<"o", "t", "h", "e", "r", "w", "i", "s", "e">>
        THEN Bind(parse_program(parser_advance(true_branch.parser)), LAMBDA false_branch :
                 [parser |-> false_branch.parser,
                  node |-> WhereStatement(condition.node, <<true_branch.node>>,
                                          <<false_branch.node>>)])
        ELSE [parser |-> true_branch.parser,
              node |-> WhereStatement(condition.node, <<true_branch.node>>, <<>>)]))

parse_where_statement(p) ==
    Bind(parse_expression(parser_advance(p)), LAMBDA condition :
    Bind(parse_program(condition.parser), LAMBDA true_branch :
        IF true_branch.parser.current_token.type = "Keyword"
           /\ true_branch.parser.current_token.text = <<"o", "t", "h", "e", "r", "w", "i", "s", "e">>
        THEN Bind(parse_program(parser_advance(true_branch.parser)), LAMBDA false_branch :
                 [parser |-> false_branch.parser,
                  node |-> WhereStatement(condition.node, true_branch.node,
                                          <<false_branch.node>>)])
        ELSE [parser |-> true_branch.parser,
              node |-> WhereStatement(condition.node, true_branch.node, <<>>)]))

\* the three arms that are no statement constructor advance past the
\* current token and put a placeholder in its place
parse_statement(p) ==
    Bind(p.current_token, LAMBDA token :
        IF token.type = "Keyword" /\ token.text = <<"w", "i", "t", "h">> THEN parse_with_statement(p)
        ELSE IF token.type = "Keyword" /\ token.text = <<"s", "e", "t">> THEN parse_set_statement(p)
        ELSE IF token.type = "Keyword" /\ token.text = <<"a", "s">> THEN parse_as_statement(p)
        ELSE IF token.type = "Keyword" /\ token.text = <<"t", "o">> THEN parse_to_statement(p)
        ELSE IF token.type = "Keyword" /\ token.text = <<"t", "h", "e", "n">> THEN parse_then_statement(p)
        ELSE IF token.type = "Keyword" /\ token.text = <<"d", "o">> THEN parse_do_statement(p)
        ELSE IF token.type = "Keyword" /\ token.text = <<"p", "r", "i", "n", "t">> THEN parse_print_statement(p)
        ELSE IF token.type = "Keyword" /\ token.text = <<"w", "h", "e", "r", "e">> THEN parse_where_statement(p)
        ELSE IF token.type = "Keyword" /\ token.text = <<"l", "o", "o", "p">> THEN parse_loop_statement(p)
        ELSE IF token.type = "Keyword" /\ token.text = <<"i", "t", "e", "r">> THEN parse_iter_statement(p)
        ELSE [parser |-> parser_advance(
                             parser_println(p,
                                 IF token.type = "Keyword"
                                 THEN "Clarice doesn't recognize the keyword"
                                 ELSE "Expected a statement")),
              node |-> PrintStatement(StringLiteralExpr(
                           IF token.type = "Keyword" THEN UnknownKeywordText
                           ELSE IF token.type = "Identifier" THEN UnexpectedIdentifierText
                           ELSE NoStatementText))])

(***************************************************************************)
(* The symbol table (symbol_table.rs) and the checking pass                *)
(* (type_checker.rs).                                                      *)
(***************************************************************************)
\* HashMap::new()
EmptyMap == [name \in {} |-> <<>>]

\* HashMap::insert
map_insert(map, key, value) ==
    [k \in DOMAIN map \cup {key} |-> IF k = key THEN value ELSE map[k]]

symbol_table_new == EmptyMap

symbol_table_insert(table, name, symbol_type) ==
    map_insert(table, name, [name |-> name, symbol_type |-> symbol_type])

\* Some(symbol) is <<symbol>>, None is <<>>
symbol_table_lookup(table, name) ==
    IF name \in DOMAIN table THEN <<table[name]>> ELSE <<>>

Ok(v) == [ok |-> TRUE, value |-> v]
Err(msg, about) == [ok |-> FALSE, err |-> msg, about |-> about]

check_expression(table, expression) ==
    CASE expression.kind = "IntegerLiteral" -> Ok("Integer")
      [] expression.kind = "StringLiteral" -> Ok("String")
      [] expression.kind = "BooleanLiteral" -> Ok("Boolean")
      [] expression.kind = "Identifier" ->
            LET symbol == symbol_table_lookup(table, expression.name) IN
                IF symbol # <<>> THEN Ok(symbol[1].symbol_type)
                ELSE Err("Undefined variable", expression.name)
      [] OTHER -> Err("Invalid expression", <<>>)

\* the body shared by the Set, As and To arms of check_statement:
\* the `?` returns the error before the insert is made
check_binding(table, name, expression) ==
    LET expression_type == check_expression(table, expression) IN
        IF expression_type.ok
        THEN [result |-> Ok(<<>>),
              symbol_table |-> symbol_table_insert(table, name, expression_type.value)]
        ELSE [result |-> expression_type, symbol_table |-> table]

\* The arms that call check_expression or check_statement without `?`
\* drop what it returns and answer Ok(()).
RECURSIVE check_statement(_, _)
check_statement(table, statement) ==
    CASE statement.kind = "Set" ->
            check_binding(table, statement.variable, statement.expression)
      [] statement.kind \in {"As", "To"} ->
            check_binding(table, statement.identifier, statement.expression)
      [] statement.kind = "Then" ->
            [result |-> Ok(<<>>),
             symbol_table |-> check_statement(table, statement.statement).symbol_table]
      [] statement.kind \in {"Do", "Print", "With", "Where", "Loop", "Iter"} ->
            [result |-> Ok(<<>>), symbol_table |-> table]
      [] OTHER ->
            [result |-> Err("Undefined statement", <<>>), symbol_table |-> table]

\* the for loop of check: the Result of check_statement is not looked at
RECURSIVE check_loop(_, _)
check_loop(table, statements) ==
    IF statements = <<>> THEN [result |-> Ok(<<>>), symbol_table |-> table]
    ELSE check_loop(check_statement(table, Head(statements)).symbol_table,
                    Tail(statements))

\* TypeChecker::check on the table of a TypeChecker
check(table, statements) == check_loop(table, statements)

\* Parser::parse: parse_program, then check on a new TypeChecker;
\* the `?` turns a check error into the error of parse
parse(p) ==
    Bind(parse_program(p), LAMBDA parsed :
    Bind(check(symbol_table_new, parsed.node), LAMBDA checked :
        [result |-> IF checked.result.ok THEN Ok(parsed.node) ELSE checked.result,
         symbol_table |-> checked.symbol_table,
         log |-> parsed.parser.log,
         parser |-> parsed.parser]))

(***************************************************************************)
(* Values and the evaluation of expressions (interpreter.rs).              *)
(* No expression evaluates to Value::Double: the arm for it names an       *)
(* Expression variant the syntax tree does not have.                       *)
(***************************************************************************)
IntegerValue(i) == [type |-> "Integer", int |-> i]
StringValue(s) == [type |-> "String", str |-> s]
BooleanValue(b) == [type |-> "Boolean", bool |-> b]
ListValue(l) == [type |-> "List", items |-> l]
ClosureValue(n, f) == [type |-> "Closure", name |-> n, args |-> f]
Void == [type |-> "Void"]

\* eprintln!(...) of an evaluator diagnostic; the message is kept by its
\* leading words
eprintln(msg) == [stream |-> "stderr", msg |-> msg]

\* the value of the expression and the diagnostics its evaluation logs
evaluate_expression(env, expression) ==
    CASE expression.kind = "Identifier" ->
            IF expression.name \in DOMAIN env
            THEN [value |-> env[expression.name], log |-> <<>>]
            ELSE [value |-> Void, log |-> <<eprintln("No variable")>>]
      [] expression.kind = "IntegerLiteral" ->
            [value |-> IntegerValue(expression.int), log |-> <<>>]
      [] expression.kind = "BooleanLiteral" ->
            [value |-> BooleanValue(expression.bool), log |-> <<>>]
      [] expression.kind = "StringLiteral" ->
            [value |-> StringValue(expression.str), log |-> <<>>]
      [] expression.kind = "ListLiteral" ->
            [value |-> ListValue(expression.items), log |-> <<>>]
      [] expression.kind = "FunctionCall" ->
            [value |-> ClosureValue(expression.name, expression.args), log |-> <<>>]

(***************************************************************************)
(* The text println! writes for a value.                                   *)
(***************************************************************************)
\* {:?} of a String: quoted, with quotes and backslashes escaped
RECURSIVE debug_escape(_)
debug_escape(s) ==
    IF s = <<>> THEN <<>>
    ELSE (IF Head(s) \in {"\"", "\\"} THEN <<"\\", Head(s)>> ELSE <<Head(s)>>)
         \o debug_escape(Tail(s))

debug_string(s) == <<"\"">> \o debug_escape(s) \o <<"\"">>

\* {:?} of an Expression and of a Vec<Expression>
RECURSIVE debug_expression(_)
RECURSIVE debug_list_items(_)
debug_list_items(l) ==
    IF l = <<>> THEN <<>>
    ELSE IF Len(l) = 1 THEN debug_expression(l[1])
    ELSE debug_expression(l[1]) \o <<",", " ">> \o debug_list_items(Tail(l))

debug_list(l) == <<"[">> \o debug_list_items(l) \o <<"]">>

debug_expression(e) ==
    CASE e.kind = "Identifier" -> <<"I", "d", "e", "n", "t", "i", "f", "i", "e", "r", "(">> \o debug_string(e.name) \o <<")">>
      [] e.kind = "IntegerLiteral" -> <<"I", "n", "t", "e", "g", "e", "r", "L", "i", "t", "e", "r", "a", "l", "(">> \o i64_to_string(e.int) \o <<")">>
      [] e.kind = "StringLiteral" -> <<"S", "t", "r", "i", "n", "g", "L", "i", "t", "e", "r", "a", "l", "(">> \o debug_string(e.str) \o <<")">>
      [] e.kind = "BooleanLiteral" ->
            <<"B", "o", "o", "l", "e", "a", "n", "L", "i", "t", "e", "r", "a", "l", "(">> \o (IF e.bool THEN <<"t", "r", "u", "e">> ELSE <<"f", "a", "l", "s", "e">>) \o <<")">>
      [] e.kind = "ListLiteral" -> <<"L", "i", "s", "t", "L", "i", "t", "e", "r", "a", "l", "(">> \o debug_list(e.items) \o <<")">>
      [] e.kind = "FunctionCall" ->
            <<"F", "u", "n", "c", "t", "i", "o", "n", "C", "a", "l", "l", "(">> \o debug_string(e.name) \o <<",", " ">>
                \o debug_list(e.args) \o <<")">>

\* the line execute_print writes for a value
print_line(value) ==
    CASE value.type = "String" -> value.str
      [] value.type = "Integer" -> i64_to_string(value.int)
      [] value.type = "Boolean" -> IF value.bool THEN <<"t", "r", "u", "e">> ELSE <<"f", "a", "l", "s", "e">>
      [] value.type = "List" -> debug_list(value.items)
      [] value.type = "Closure" ->
            debug_string(value.name) \o <<",", " ">> \o debug_list(value.args)
      [] value.type = "Void" -> <<>>

(***************************************************************************)
(* execute_iter: the environment it leaves, the diagnostics it logs and    *)
(* the number of times it evaluated the body.                              *)
(***************************************************************************)
\* a variant of range: the inclusive range lo..=hi
range_inclusive(lo, hi) == [k \in 1..(IF hi >= lo THEN hi - lo + 1 ELSE 0) |-> lo + k - 1]

\* the values of the half-open range lo..hi, in order
range(lo, hi) == [k \in 1..(IF hi > lo THEN hi - lo ELSE 0) |-> lo + k - 1]

\* for c in s.chars() { insert(variable, String(c)); evaluate(body) }
RECURSIVE iter_string(_, _, _)
iter_string(st, statement, chars) ==
    IF chars = <<>> THEN st
    ELSE LET env == map_insert(st.variables, statement.variable,
                               StringValue(<<Head(chars)>>))
             body == evaluate_expression(env, statement.expression)
         IN  iter_string([variables |-> env, log |-> st.log \o body.log,
                          iterations |-> st.iterations + 1],
                         statement, Tail(chars))

\* for _ in 0..i { evaluate(body) }
RECURSIVE iter_integer(_, _, _)
iter_integer(st, statement, counts) ==
    IF counts = <<>> THEN st
    ELSE LET body == evaluate_expression(st.variables, statement.expression) IN
             iter_integer([st EXCEPT !.log = @ \o body.log,
                                     !.iterations = @ + 1],
                          statement, Tail(counts))

\* for v in l { insert(variable, evaluate(v)); evaluate(body) }
RECURSIVE iter_list(_, _, _)
iter_list(st, statement, l) ==
    IF l = <<>> THEN st
    ELSE LET v == evaluate_expression(st.variables, Head(l))
             env == map_insert(st.variables, statement.variable, v.value)
             body == evaluate_expression(env, statement.expression)
         IN  iter_list([variables |-> env, log |-> st.log \o v.log \o body.log,
                        iterations |-> st.iterations + 1],
                       statement, Tail(l))

iter_effect(env, statement) ==
    LET iterable == evaluate_expression(env, statement.iterable)
        st == [variables |-> env, log |-> iterable.log, iterations |-> 0]
    IN  CASE iterable.value.type = "String" ->
                iter_string(st, statement, iterable.value.str)
          [] iterable.value.type = "Integer" ->
                iter_integer(st, statement, range(0, iterable.value.int))
          [] iterable.value.type = "List" ->
                iter_list(st, statement, iterable.value.items)
          [] OTHER -> [st EXCEPT !.log = Append(@, eprintln("Cannot iterate over"))]

(***************************************************************************)
(* The lines the model feeds to clarice_eval.                              *)
(***************************************************************************)
RECURSIVE join(_)
join(texts) ==
    IF texts = <<>> THEN <<>>
    ELSE IF Len(texts) = 1 THEN texts[1]
    ELSE texts[1] \o <<" ">> \o join(Tail(texts))

SeqsUpTo(S, n) == UNION {[1..k -> S] : k \in 0..n}

X == <<"x">>
Y == <<"y">>

Words == {<<"w", "i", "t", "h">>, <<"s", "e", "t">>, <<"i", "t", "e", "r">>, <<"t", "o">>, <<"a", "s">>, <<"t", "h", "e", "n">>, <<"d", "o">>,
          <<"w", "h", "e", "r", "e">>, <<"l", "o", "o", "p">>, <<"p", "r", "i", "n", "t">>, <<"o", "t", "h", "e", "r", "w", "i", "s", "e">>, X, <<"1">>, <<"\"", "a", "b", "\"">>}

Phrases == {<<"w", "i", "t", "h", " ", "x", " ", "1">>, <<"w", "i", "t", "h", " ", "x", " ", "a", "s", " ", "1">>, <<"w", "i", "t", "h", " ", "y", " ", "\"", "a", "b", "\"">>,
            <<"s", "e", "t", " ", "x", " ", "t", "o", " ", "1">>, <<"s", "e", "t", " ", "y", " ", "t", "o", " ", "x">>, <<"s", "e", "t", " ", "x", " ", "t", "o", " ", "\"", "a", "b", "\"">>,
            <<"p", "r", "i", "n", "t", " ", "x">>, <<"p", "r", "i", "n", "t", " ", "y">>, <<"p", "r", "i", "n", "t", " ", "\"", "a", "b", "\"">>, <<"p", "r", "i", "n", "t", " ", "1">>,
            <<"i", "t", "e", "r", " ", "x", " ", "y", " ", "2">>, <<"i", "t", "e", "r", " ", "x", " ", "y", " ", "0">>, <<"i", "t", "e", "r", " ", "x", " ", "i", "n", " ", "\"", "a", "b", "\"">>, <<"i", "t", "e", "r", " ", "x", " ", "y", " ", "x">>,
            <<"w", "h", "e", "r", "e", " ", "x">>, <<"l", "o", "o", "p", " ", "x">>, <<"l", "o", "o", "p", " ", "1">>, <<"a", "s", " ", "x", " ", "1">>, <<"t", "o", " ", "x", " ", "1">>,
            <<"t", "h", "e", "n", " ", "p", "r", "i", "n", "t", " ", "x">>, <<"d", "o", " ", "y", " ", "p", "r", "i", "n", "t", " ", "x">>, <<"x">>}

WordLines == {join(ws) : ws \in SeqsUpTo(Words, MaxWords)}

PhraseLines == {join(ps) : ps \in SeqsUpTo(Phrases, MaxPhrases)}

DigitSet == {Digits[i] : i \in 1..Len(Digits)}

\* the numerals of 1..MaxDigits digits
Numerals == UNION {[1..k -> DigitSet] : k \in 1..MaxDigits}

\* numerals that do not fit in an i64: i64::MAX + 1, and twenty nines
OverflowNumerals == {<<"9", "2", "2", "3", "3", "7", "2", "0", "3", "6", "8", "5", "4", "7", "7", "5", "8", "0", "8">>, <<"9", "9", "9", "9", "9", "9", "9", "9", "9", "9", "9", "9", "9", "9", "9", "9", "9", "9", "9", "9">>}

IntegerLiteralTexts == Numerals \cup OverflowNumerals

\* the contents of the string literals, without their quotes
StringContents == {<<>>, <<"a">>, <<"a", "b">>, <<"a", " ", "b">>, <<"h", "i">>}

quoted(s) == <<"\"">> \o s \o <<"\"">>

StringLiteralTexts == {quoted(s) : s \in StringContents}

BooleanLiteralTexts == {<<"t", "r", "u", "e">>, <<"f", "a", "l", "s", "e">>}

ListLiteralTexts == {<<"[", "1", ",", " ", "2", "]">>, <<"[", "]">>}

LiteralTexts ==
    IntegerLiteralTexts \cup StringLiteralTexts \cup BooleanLiteralTexts
        \cup ListLiteralTexts

SetThenPrintLine(v) == <<"s", "e", "t", " ", "x", " ", "t", "o", " ">> \o v \o <<" ", "t", "h", "e", "n", " ", "p", "r", "i", "n", "t", " ", "x">>
WithAsPrintLine(v) == <<"w", "i", "t", "h", " ", "x", " ", "a", "s", " ">> \o v \o <<" ", "p", "r", "i", "n", "t", " ", "x">>
PrintLine(v) == <<"p", "r", "i", "n", "t", " ">> \o v
IterInStringLine(s) == <<"i", "t", "e", "r", " ", "x", " ", "i", "n", " ">> \o quoted(s) \o <<" ", "d", "o", " ", "p", "r", "i", "n", "t", " ", "x">>

WhereTrueOtherwiseLine == <<"w", "h", "e", "r", "e", " ", "t", "r", "u", "e", " ", "d", "o", " ", "p", "r", "i", "n", "t", " ", "\"", "A", "\"", " ", "o", "t", "h", "e", "r", "w", "i", "s", "e", " ", "d", "o", " ", "p", "r", "i", "n", "t", " ", "\"", "B", "\"">>
WhereFalseOtherwiseLine == <<"w", "h", "e", "r", "e", " ", "f", "a", "l", "s", "e", " ", "d", "o", " ", "p", "r", "i", "n", "t", " ", "\"", "A", "\"", " ", "o", "t", "h", "e", "r", "w", "i", "s", "e", " ", "d", "o", " ", "p", "r", "i", "n", "t", " ", "\"", "B", "\"">>
WhereFalseLine == <<"w", "h", "e", "r", "e", " ", "f", "a", "l", "s", "e", " ", "d", "o", " ", "p", "r", "i", "n", "t", " ", "\"", "A", "\"">>
PrintCallLine == <<"p", "r", "i", "n", "t", " ", "f", "(", "1", ")">>
IterThreeLine == <<"i", "t", "e", "r", " ", "x", " ", "i", "n", " ", "3", " ", "d", "o", " ", "p", "r", "i", "n", "t", " ", "\"", "h", "i", "\"">>
LoopLine == <<"l", "o", "o", "p", " ", "d", "o", " ", "p", "r", "i", "n", "t", " ", "\"", "x", "\"">>
HelpLine == <<"h", "e", "l", "p">>
ExitLine == <<"e", "x", "i", "t">>

\* lines of one alphanumeric/underscore run that starts with a letter
WordRuns ==
    Keywords \cup {<<"o", "t", "h", "e", "r", "w", "i", "s", "e">>, <<"i", "n">>, <<"t", "r", "u", "e">>, <<"f", "a", "l", "s", "e">>, <<"x", "1">>, <<"a", "_", "b">>,
                   <<"p", "r", "i", "n", "t", "x">>, <<"W", "i", "t", "h">>}

ExampleLines ==
    {SetThenPrintLine(v) : v \in LiteralTexts}
        \cup {WithAsPrintLine(v) : v \in LiteralTexts}
        \cup {PrintLine(v) : v \in LiteralTexts}
        \cup {IterInStringLine(s) : s \in StringContents}
        \cup {WhereTrueOtherwiseLine, WhereFalseOtherwiseLine, WhereFalseLine,
              PrintCallLine, IterThreeLine, LoopLine, HelpLine, ExitLine,
              <<"w", "i", "t", "h", " ", "x", " ", "a", "s", " ", "1", " ", "p", "r", "i", "n", "t", " ", "x", " ", "t", "h", "e", "n", " ", "p", "r", "i", "n", "t", " ", "x">>,
              <<"s", "e", "t", " ", "x", " ", "t", "o", " ", "1", " ", "i", "t", "e", "r", " ", "x", " ", "y", " ", "2", " ", "p", "r", "i", "n", "t", " ", "x">>,
              <<"i", "t", "e", "r", " ", "x", " ", "7", " ", "2">>,
              <<"s", "e", "t", " ", "x", " ", "t", "o", " ", "1", " ", "w", "i", "t", "h", " ", "y", " ", "z", " ", "p", "r", "i", "n", "t", " ", "x">>,
              <<"w", "h", "e", "r", "e", " ", "1", " ", "p", "r", "i", "n", "t", " ", "1">>,
              <<"p", "r", "i", "n", "t", " ", "1", " ", "w", "h", "e", "r", "e", " ", "x", " ", "p", "r", "i", "n", "t", " ", "x", " ", "d", "o", " ", "y", " ", "w", "h", "e", "r", "e", " ", "y", " ", "p", "r", "i", "n", "t", " ", "y", " ", "t", "h", "e", "n", " ", "w", "h", "e", "r", "e", " ", "x">>,
              <<"w", "i", "t", "h", " ", "x", " ", "1", " ", "p", "r", "i", "n", "t", " ", "x", " ", "p", "r", "i", "n", "t", " ", "x">>,
              <<"p", "r", "i", "n", "t", " ", "#", "1", " ">>}

\* the lines of a single invocation
Inputs == WordLines \cup PhraseLines \cup ExampleLines \cup WordRuns

\* the lines of a session of several invocations
ReplLines ==
    Phrases \cup {HelpLine, <<"p", "r", "i", "n", "t", " ", "x", " ", "s", "e", "t", " ", "x", " ", "t", "o", " ", "1">>, <<"p", "r", "i", "n", "t", " ", "x", " ", "w", "i", "t", "h", " ", "x", " ", "1">>,
                  <<"s", "e", "t", " ", "y", " ", "t", "o", " ", "x", " ", "s", "e", "t", " ", "x", " ", "t", "o", " ", "1">>}

(***************************************************************************)
(* The state machine.                                                      *)
(***************************************************************************)
NoResult == [kind |-> "None"]

Init ==
    /\ phase = "read"
    /\ input = <<>>
    /\ lines_read = 0
    /\ program = <<>>
    /\ symbol_table = EmptyMap
    /\ variables = EmptyMap
    /\ stack = <<>>
    /\ output = <<>>
    /\ diagnostics = <<>>
    /\ iterations = 0
    /\ result = NoResult
    /\ first = <<>>

\* str::trim_end
RECURSIVE trim_end(_)
trim_end(text) ==
    IF text # <<>> /\ is_whitespace(text[Len(text)])
    THEN trim_end(SubSeq(text, 1, Len(text) - 1))
    ELSE text

\* Environment::new()
environment_new == EmptyMap

\* a variant of fresh_environment: the store of the previous invocation is kept
reused_environment(previous) == previous

\* `let mut environment = Environment::new();` in clarice_eval: the store
\* of an invocation, whatever store the previous invocation left
fresh_environment(previous) == environment_new

\* what a finished invocation is remembered by
Finished(line, res, env, out, diag, table) ==
    [input |-> line, result |-> res, variables |-> env, output |-> out,
     diagnostics |-> diag, symbol_table |-> table]

\* clarice_eval(command), up to the call of environment.interpret
clarice_eval(line) ==
    /\ input' = line
    /\ lines_read' = lines_read + 1
    /\ iterations' = 0
    /\ output' = <<>>
    /\ IF line = ExitLine
       THEN /\ phase' = "exited"
            /\ diagnostics' = <<[stream |-> "stdout", msg |-> "Okay, shutting down the Clarice interactive mode."]>>
            /\ program' = <<>>
            /\ symbol_table' = EmptyMap
            /\ variables' = EmptyMap
            /\ stack' = <<>>
            /\ UNCHANGED <<result, first>>
       ELSE IF line = HelpLine
       THEN /\ phase' = "read"
            /\ diagnostics' =
                    <<[stream |-> "stdout",
                       msg |-> "You can enter Clarice commands into the interactive prompt."],
                      [stream |-> "stdout",
                       msg |-> "Type 'exit' to exit interactive mode."]>>
            /\ result' = [kind |-> "Ok", text |-> <<"=", ">", " ", "h", "e", "l", "p">>]
            /\ program' = <<>>
            /\ symbol_table' = EmptyMap
            /\ variables' = EmptyMap
            /\ stack' = <<>>
            /\ first' = IF first = <<>>
                        THEN <<Finished(line, result', EmptyMap, <<>>, diagnostics', EmptyMap)>>
                        ELSE first
       ELSE \E parsed \in {parse(parser_new(lexer_new(line)))} :
            /\ diagnostics' = parsed.log
            /\ symbol_table' = parsed.symbol_table
            /\ IF parsed.result.ok
               THEN /\ phase' = "eval"
                    /\ program' = parsed.result.value
                    /\ variables' = fresh_environment(variables)
                    /\ stack' = <<parsed.result.value>>
                    /\ UNCHANGED <<result, first>>
               ELSE /\ phase' = "read"
                    /\ result' = [kind |-> "Err", err |-> parsed.result.err,
                                  about |-> parsed.result.about]
                    /\ program' = <<>>
                    /\ variables' = EmptyMap
                    /\ stack' = <<>>
                    /\ first' = IF first = <<>>
                                THEN <<Finished(line, result', EmptyMap, <<>>,
                                                diagnostics', symbol_table')>>
                                ELSE first

\* the loop of interactive(): once the previous clarice_eval has returned,
\* read a line, trim it, evaluate it
interactive(lines, limit) ==
    /\ phase = "read"
    /\ lines_read < limit
    /\ \E line \in lines : clarice_eval(trim_end(line))

\* the statement execute_statement is about to dispatch on
executing(kind) ==
    /\ phase = "eval"
    /\ stack # <<>>
    /\ stack[Len(stack)] # <<>>
    /\ Head(stack[Len(stack)]).kind = kind

statement == Head(stack[Len(stack)])

\* the for loop of interpret moves on to the next statement
next_statement == [stack EXCEPT ![Len(stack)] = Tail(@)]

execute_with ==
    /\ executing("With")
    /\ LET value == evaluate_expression(variables, statement.expression) IN
        /\ variables' = map_insert(variables, statement.identifier, value.value)
        /\ diagnostics' = diagnostics \o value.log
    /\ stack' = next_statement
    /\ UNCHANGED <<phase, input, lines_read, program, symbol_table, output,
                   iterations, result, first>>

execute_set ==
    /\ executing("Set")
    /\ LET value == evaluate_expression(variables, statement.expression) IN
        /\ variables' = map_insert(variables, statement.variable, value.value)
        /\ diagnostics' = diagnostics \o value.log
    /\ stack' = next_statement
    /\ UNCHANGED <<phase, input, lines_read, program, symbol_table, output,
                   iterations, result, first>>

\* a variant of execute_as that gives up the rest of the statement sequence
execute_as_abandons ==
    /\ executing("As")
    /\ diagnostics' = Append(diagnostics, eprintln("as cannot be used on its own"))
    /\ stack' = [stack EXCEPT ![Len(stack)] = <<>>]
    /\ UNCHANGED <<phase, input, lines_read, program, symbol_table, variables,
                   output, iterations, result, first>>

execute_as ==
    /\ executing("As")
    /\ diagnostics' = Append(diagnostics, eprintln("as cannot be used on its own"))
    /\ stack' = next_statement
    /\ UNCHANGED <<phase, input, lines_read, program, symbol_table, variables,
                   output, iterations, result, first>>

execute_to ==
    /\ executing("To")
    /\ diagnostics' = Append(diagnostics, eprintln("to cannot be used on its own"))
    /\ stack' = next_statement
    /\ UNCHANGED <<phase, input, lines_read, program, symbol_table, variables,
                   output, iterations, result, first>>

\* execute_statement(&then_statement.statement): the wrapped statement is
\* executed in the place of the Then
execute_then ==
    /\ executing("Then")
    /\ stack' = [stack EXCEPT ![Len(stack)] = <<statement.statement>> \o Tail(@)]
    /\ UNCHANGED <<phase, input, lines_read, program, symbol_table, variables,
                   output, diagnostics, iterations, result, first>>

\* execute_statement(&do_statement.statement): the expression of the Do is
\* not evaluated
execute_do ==
    /\ executing("Do")
    /\ stack' = [stack EXCEPT ![Len(stack)] = <<statement.statement>> \o Tail(@)]
    /\ UNCHANGED <<phase, input, lines_read, program, symbol_table, variables,
                   output, diagnostics, iterations, result, first>>

execute_print ==
    /\ executing("Print")
    /\ LET value == evaluate_expression(variables, statement.expression) IN
        /\ output' = Append(output, print_line(value.value))
        /\ diagnostics' = diagnostics \o value.log
    /\ stack' = next_statement
    /\ UNCHANGED <<phase, input, lines_read, program, symbol_table, variables,
                   iterations, result, first>>

\* self.interpret(branch.clone()) starts a nested interpret call
execute_where ==
    /\ executing("Where")
    /\ LET value == evaluate_expression(variables, statement.condition) IN
        /\ diagnostics' = diagnostics \o value.log
        /\ stack' = IF value.value.type = "Boolean" /\ value.value.bool
                    THEN Append(next_statement, statement.true_branch)
                    ELSE IF statement.false_branch # <<>>
                    THEN Append(next_statement, statement.false_branch[1])
                    ELSE next_statement
    /\ UNCHANGED <<phase, input, lines_read, program, symbol_table, variables,
                   output, iterations, result, first>>

\* a variant of execute_loop: the expression is evaluated once and the run
\* moves on to the next statement
execute_loop_once ==
    /\ executing("Loop")
    /\ LET value == evaluate_expression(variables, statement.expression) IN
        diagnostics' = diagnostics \o value.log
    /\ stack' = next_statement
    /\ UNCHANGED <<phase, input, lines_read, program, symbol_table, variables,
                   output, iterations, result, first>>

\* one pass of the `loop { ... }` of execute_loop; the loop has no exit, so
\* the Loop statement stays the current one
execute_loop ==
    /\ executing("Loop")
    /\ LET value == evaluate_expression(variables, statement.expression) IN
        diagnostics' = IF Len(diagnostics) + Len(value.log) <= MaxLog
                       THEN diagnostics \o value.log
                       ELSE diagnostics
    /\ UNCHANGED <<phase, input, lines_read, program, symbol_table, variables,
                   stack, output, iterations, result, first>>

execute_iter ==
    /\ executing("Iter")
    /\ LET st == iter_effect(variables, statement) IN
        /\ variables' = st.variables
        /\ diagnostics' = diagnostics \o st.log
        /\ iterations' = st.iterations
    /\ stack' = next_statement
    /\ UNCHANGED <<phase, input, lines_read, program, symbol_table, output,
                   result, first>>

\* the for loop of an interpret call is over: a nested call returns into
\* execute_where, the outermost one into clarice_eval, which returns
\* format!("=> {}", input)
interpret_return ==
    /\ phase = "eval"
    /\ stack # <<>>
    /\ stack[Len(stack)] = <<>>
    /\ stack' = SubSeq(stack, 1, Len(stack) - 1)
    /\ IF Len(stack) = 1
       THEN /\ phase' = "read"
            /\ result' = [kind |-> "Ok", text |-> <<"=", ">", " ">> \o input]
            /\ first' = IF first = <<>>
                        THEN <<Finished(input, result', variables, output,
                                        diagnostics, symbol_table)>>
                        ELSE first
       ELSE UNCHANGED <<phase, result, first>>
    /\ UNCHANGED <<input, lines_read, program, symbol_table, variables, output,
                   diagnostics, iterations>>

execute_statement ==
    \/ execute_with
    \/ execute_set
    \/ execute_as
    \/ execute_to
    \/ execute_then
    \/ execute_do
    \/ execute_print
    \/ execute_where
    \/ execute_loop
    \/ execute_iter

\* one invocation of clarice_eval on any line of Inputs
Next == interactive(Inputs, 1) \/ execute_statement \/ interpret_return

Spec == Init /\ [][Next]_vars

\* a session of MaxLines invocations on the lines of ReplLines
NextRepl == interactive(ReplLines, MaxLines) \/ execute_statement \/ interpret_return

SpecRepl == Init /\ [][NextRepl]_vars

(***************************************************************************)
(* Vocabulary of the properties.                                           *)
(***************************************************************************)
\* an invocation of clarice_eval has returned
finished == phase = "read" /\ lines_read > 0

\* the diagnostics of the current invocation that went to stdout
stdout_diagnostics == SelectSeq(diagnostics, LAMBDA d : d.stream = "stdout")

has_prefix(line, pre) == Len(line) >= Len(pre) /\ SubSeq(line, 1, Len(pre)) = pre

has_suffix(line, suf) ==
    Len(line) >= Len(suf) /\ SubSeq(line, Len(line) - Len(suf) + 1, Len(line)) = suf

\* the line is pre, then a literal, then suf
frames(line, pre, suf) ==
    Len(line) > Len(pre) + Len(suf) /\ has_prefix(line, pre) /\ has_suffix(line, suf)

between(line, pre, suf) == SubSeq(line, Len(pre) + 1, Len(line) - Len(suf))

is_numeral(v) == v # <<>> /\ \A i \in 1..Len(v) : v[i] \in DigitSet

\* a numeral written without leading zeros
is_canonical(v) == is_numeral(v) /\ (Len(v) = 1 \/ v[1] # "0")

is_string_literal(v) ==
    /\ Len(v) >= 2
    /\ v[1] = "\""
    /\ v[Len(v)] = "\""
    /\ \A i \in 2..(Len(v) - 1) : v[i] # "\""

\* the number a numeral denotes
RECURSIVE NumeralValue(_)
NumeralValue(v) ==
    IF v = <<>> THEN 0
    ELSE 10 * NumeralValue(SubSeq(v, 1, Len(v) - 1))
            + (CHOOSE k \in 0..9 : Digits[k + 1] = v[Len(v)])

\* the decimal text of the number a numeral denotes
RECURSIVE CanonicalText(_)
CanonicalText(v) == IF Len(v) > 1 /\ v[1] = "0" THEN CanonicalText(Tail(v)) ELSE v

\* the expression and the printed line of an integer or string literal
LiteralExpression(v) ==
    IF is_numeral(v) THEN IntegerLiteralExpr(NumeralValue(v))
    ELSE StringLiteralExpr(SubSeq(v, 2, Len(v) - 1))

LiteralRendering(v) ==
    IF is_numeral(v) THEN CanonicalText(v)
    ELSE IF is_string_literal(v) THEN SubSeq(v, 2, Len(v) - 1)
    ELSE v

\* the kind of Value a literal of the language denotes
LiteralType(v) ==
    IF is_numeral(v) THEN "Integer"
    ELSE IF is_string_literal(v) THEN "String"
    ELSE IF v \in BooleanLiteralTexts THEN "Boolean"
    ELSE "List"

SetPrefix == <<"s", "e", "t", " ", "x", " ", "t", "o", " ">>
SetSuffix == <<" ", "t", "h", "e", "n", " ", "p", "r", "i", "n", "t", " ", "x">>
WithPrefix == <<"w", "i", "t", "h", " ", "x", " ", "a", "s", " ">>
WithSuffix == <<" ", "p", "r", "i", "n", "t", " ", "x">>
PrintPrefix == <<"p", "r", "i", "n", "t", " ">>

\* the statements parse_program builds for a line
ParsedProgram(line) == parse_program(parser_new(lexer_new(line))).node

\* the expression the checking pass resolves for a statement
RECURSIVE governing_expression(_)
governing_expression(s) ==
    CASE s.kind \in {"With", "Set", "As", "To", "Print", "Loop"} -> s.expression
      [] s.kind = "Where" -> s.condition
      [] s.kind = "Iter" -> s.iterable
      [] s.kind \in {"Then", "Do"} -> governing_expression(s.statement)

\* <<name>> for the first statement whose governing expression is an
\* Identifier without an entry in the table at that point of the pass
RECURSIVE first_undefined(_, _)
first_undefined(table, statements) ==
    IF statements = <<>> THEN <<>>
    ELSE IF governing_expression(Head(statements)).kind = "Identifier"
            /\ governing_expression(Head(statements)).name \notin DOMAIN table
    THEN <<governing_expression(Head(statements)).name>>
    ELSE first_undefined(check_statement(table, Head(statements)).symbol_table,
                         Tail(statements))

\* the statement writes the name into the Environment when it runs
RECURSIVE binds(_, _)
binds(s, name) ==
    CASE s.kind = "With" -> s.identifier = name
      [] s.kind = "Set" -> s.variable = name
      [] s.kind = "Iter" -> s.variable = name
      [] s.kind \in {"Then", "Do"} -> binds(s.statement, name)
      [] s.kind = "Where" ->
            \/ \E i \in 1..Len(s.true_branch) : binds(s.true_branch[i], name)
            \/ \E b \in 1..Len(s.false_branch) :
                    \E i \in 1..Len(s.false_branch[b]) : binds(s.false_branch[b][i], name)
      [] OTHER -> FALSE

\* the statement records the name in the SymbolTable when it is checked
RECURSIVE declares(_, _)
declares(s, name) ==
    CASE s.kind = "Set" -> s.variable = name
      [] s.kind \in {"As", "To"} -> s.identifier = name
      [] s.kind = "Then" -> declares(s.statement, name)
      [] OTHER -> FALSE

\* the number of statements of the line's program that have finished, while
\* no nested interpret call is active
statements_done ==
    IF phase = "read" THEN Len(program) ELSE Len(program) - Len(stack[1])

(***************************************************************************)
(* C1.  A program in which some statement's governing expression is an     *)
(* Identifier without a SymbolTable entry at that point of the pass is      *)
(* rejected: check() stops there, parse() returns the 'undefined variable'  *)
(* error, and clarice_eval executes no statement and writes no line.        *)
(* Stated on every state after the line was handed to clarice_eval: the     *)
(* invocation has returned that error, never entered interpret.             *)
(***************************************************************************)
C1_UndefinedVariableRejected ==
    (/\ lines_read > 0
     /\ phase # "exited"
     /\ input # HelpLine
     /\ first_undefined(symbol_table_new, ParsedProgram(input)) # <<>>)
        => /\ phase = "read"
           /\ result.kind = "Err"
           /\ result.err = "Undefined variable"
           /\ result.about = first_undefined(symbol_table_new, ParsedProgram(input))[1]
           /\ output = <<>>

(***************************************************************************)
(* C2.  For every literal kind V (integer, string, boolean, list),          *)
(* `set x to V then print x` binds x to the value of V and writes exactly   *)
(* one line, the rendering of V.                                            *)
(***************************************************************************)
C2_AnyLiteralSetThenPrint ==
    (/\ finished
     /\ frames(input, SetPrefix, SetSuffix)
     /\ between(input, SetPrefix, SetSuffix) \in LiteralTexts)
        => /\ Len(output) = 1
           /\ X \in DOMAIN variables
           /\ variables[X].type = LiteralType(between(input, SetPrefix, SetSuffix))
           /\ LiteralType(between(input, SetPrefix, SetSuffix)) # "List"
                => output[1] = LiteralRendering(between(input, SetPrefix, SetSuffix))

(***************************************************************************)
(* C3.  The binding of a With statement is gone once the statement that    *)
(* follows it in the same sequence has finished: at any later point of the  *)
(* sequence at which no statement since has bound the name again, the name  *)
(* is absent from the Environment.                                          *)
(***************************************************************************)
C3_WithBindingDropped ==
    (lines_read > 0 /\ phase # "exited" /\ (phase = "eval" => Len(stack) = 1))
        => \A i \in 1..Len(program) :
              (/\ program[i].kind = "With"
               /\ i + 1 <= statements_done
               /\ \A j \in (i + 1)..statements_done :
                      ~binds(program[j], program[i].identifier))
                 => program[i].identifier \notin DOMAIN variables

(***************************************************************************)
(* C4.  For every integer or string literal V, `with x as V print x`       *)
(* parses to a With binding x to V followed by a Print of x, and the run    *)
(* writes exactly one line, the rendering of V.                             *)
(***************************************************************************)
C4_WithAsPrint ==
    (/\ lines_read > 0
     /\ frames(input, WithPrefix, WithSuffix)
     /\ \/ is_string_literal(between(input, WithPrefix, WithSuffix))
        \/ /\ is_numeral(between(input, WithPrefix, WithSuffix))
           /\ Len(between(input, WithPrefix, WithSuffix)) <= MaxDigits)
        => /\ program = <<WithStatement(X, LiteralExpression(
                                               between(input, WithPrefix, WithSuffix))),
                          PrintStatement(IdentifierExpr(X))>>
           /\ finished =>
                output = <<LiteralRendering(between(input, WithPrefix, WithSuffix))>>

(***************************************************************************)
(* C5.  `where true do print "A" otherwise do print "B"` writes exactly    *)
(* the line A, `where false do print "A" otherwise do print "B"` exactly    *)
(* the line B, and `where false do print "A"` no line.                      *)
(***************************************************************************)
C5_WhereSelectsBranch ==
    finished
        => /\ input = WhereTrueOtherwiseLine => output = <<<<"A">>>>
           /\ input = WhereFalseOtherwiseLine => output = <<<<"B">>>>
           /\ input = WhereFalseLine => output = <<>>

(***************************************************************************)
(* C6.  For every string literal s, `iter x in "s" do print x` writes one  *)
(* line per character of s, in order, each line being that character.       *)
(***************************************************************************)
C6_IterOverString ==
    \A s \in StringContents :
        (finished /\ input = IterInStringLine(s))
            => output = [i \in 1..Len(s) |-> <<s[i]>>]

(***************************************************************************)
(* C7.  An Iter whose iterable evaluates to Integer N evaluates its body   *)
(* exactly N times when N > 0 and not at all when N <= 0 (an absent         *)
(* identifier as body logs its diagnostic that many times), and leaves the  *)
(* Environment entry of the loop variable, present or absent, as it was.    *)
(***************************************************************************)
C7_IterOverInteger ==
    [][(/\ executing("Iter")
        /\ evaluate_expression(variables, statement.iterable).value.type = "Integer")
          => /\ iterations' =
                    IF evaluate_expression(variables, statement.iterable).value.int > 0
                    THEN evaluate_expression(variables, statement.iterable).value.int
                    ELSE 0
             /\ (statement.expression.kind = "Identifier"
                    /\ statement.expression.name \notin DOMAIN variables)
                  => Len(diagnostics') = Len(diagnostics) + iterations'
             /\ (statement.variable \in DOMAIN variables')
                    <=> (statement.variable \in DOMAIN variables)
             /\ (statement.variable \in DOMAIN variables)
                  => variables'[statement.variable] = variables[statement.variable]]_vars

\* `set x to 1 iter x y 2 print x` has returned: the body ran twice, and x,
\* bound before the Iter, still held 1 when it was printed
C7_Witness ==
    /\ finished
    /\ input = <<"s", "e", "t", " ", "x", " ", "t", "o", " ", "1", " ", "i", "t", "e", "r", " ", "x", " ", "y", " ", "2", " ", "p", "r", "i", "n", "t", " ", "x">>
    /\ iterations = 2
    /\ Len(diagnostics) = 2
    /\ output = <<<<"1">>>>

(***************************************************************************)
(* C8.  `print [1, 2]` and `print f(1)` fail the checking pass with an     *)
(* 'invalid expression' diagnostic: parse() returns that error and the run  *)
(* writes no line.                                                          *)
(***************************************************************************)
C8_ListAndCallRejected ==
    (lines_read > 0 /\ input \in {PrintLine(<<"[", "1", ",", " ", "2", "]">>), PrintCallLine})
        => /\ phase = "read"
           /\ result.kind = "Err"
           /\ result.err = "Invalid expression"
           /\ output = <<>>

(***************************************************************************)
(* C9, as stated.  For every integer literal n (a maximal run of digits),  *)
(* scanning n and rendering the token's value gives back the text of n, so  *)
(* `print n` writes exactly one line, the text of n.                        *)
(***************************************************************************)
C9_AnyNumeralRoundTrip ==
    (/\ lines_read > 0
     /\ has_prefix(input, PrintPrefix)
     /\ is_numeral(between(input, PrintPrefix, <<>>)))
        => /\ get_next_token(lexer_new(between(input, PrintPrefix, <<>>))).token.type
                = "IntegerLiteral"
           /\ i64_to_string(
                get_next_token(lexer_new(between(input, PrintPrefix, <<>>))).token.int)
                = between(input, PrintPrefix, <<>>)
           /\ finished => output = <<between(input, PrintPrefix, <<>>)>>

(***************************************************************************)
(* C9, amended.  For every integer literal n written without leading zeros *)
(* whose value fits in an i64 (here: n has fewer digits than i64::MAX),     *)
(* scanning n and rendering the token's value gives back the text of n, so  *)
(* `print n` writes exactly one line, the text of n.                        *)
(***************************************************************************)
C9_CanonicalNumeralRoundTrip ==
    (/\ lines_read > 0
     /\ has_prefix(input, PrintPrefix)
     /\ is_canonical(between(input, PrintPrefix, <<>>))
     /\ Len(between(input, PrintPrefix, <<>>)) < Len(I64MaxDigits))
        => /\ get_next_token(lexer_new(between(input, PrintPrefix, <<>>))).token.type
                = "IntegerLiteral"
           /\ i64_to_string(
                get_next_token(lexer_new(between(input, PrintPrefix, <<>>))).token.int)
                = between(input, PrintPrefix, <<>>)
           /\ finished => /\ output = <<between(input, PrintPrefix, <<>>)>>
                          /\ stdout_diagnostics = <<>>

\* `print 40` has returned and wrote the line 40
C9_Witness ==
    /\ finished
    /\ input = PrintLine(<<"4", "0">>)
    /\ program = <<PrintStatement(IntegerLiteralExpr(40))>>
    /\ output = <<<<"4", "0">>>>

(***************************************************************************)
(* C10.  Every clarice_eval invocation of a session starts from an empty   *)
(* Environment and an empty SymbolTable: when interpret is entered the      *)
(* Environment is empty, the SymbolTable holds only names the line itself   *)
(* binds, and a line that is entered again returns what it returned the     *)
(* first time: the same result, output, diagnostics, final Environment and  *)
(* SymbolTable.                                                             *)
(***************************************************************************)
C10_InvocationsAreIndependent ==
    /\ (phase = "eval" /\ stack = <<program>>) => variables = EmptyMap
    /\ \A name \in DOMAIN symbol_table :
          \E i \in 1..Len(program) : declares(program[i], name)
    /\ (finished /\ first # <<>> /\ first[1].input = input)
          => /\ first[1].result = result
             /\ first[1].output = output
             /\ first[1].diagnostics = diagnostics
             /\ first[1].variables = variables
             /\ first[1].symbol_table = symbol_table

\* the second line of a session, `print x`, has returned after a first line
\* that left x bound: it found no x and wrote an empty line
C10_Witness ==
    /\ finished
    /\ lines_read = 2
    /\ first # <<>>
    /\ X \in DOMAIN first[1].variables
    /\ input = <<"p", "r", "i", "n", "t", " ", "x">>
    /\ variables = EmptyMap
    /\ output = << <<>> >>

(***************************************************************************)
(* C11.  Once execution of a Loop statement has started it never           *)
(* completes: every later step of the run is another evaluation of the      *)
(* Loop's expression, the Loop stays the current statement, no statement    *)
(* after it is executed (nothing is written, nothing is bound) and          *)
(* clarice_eval does not return.                                            *)
(***************************************************************************)
C11_LoopNeverCompletes ==
    [][executing("Loop")
          => /\ (executing("Loop"))'
             /\ stack' = stack
             /\ phase' = "eval"
             /\ output' = output
             /\ variables' = variables
             /\ result' = result
             /\ lines_read' = lines_read]_vars

\* `loop x print x` is inside its Loop after MaxLog evaluations of x, each of
\* which logged its diagnostic; the Print after the Loop has written nothing
C11_Witness ==
    /\ input = <<"l", "o", "o", "p", " ", "x", " ", "p", "r", "i", "n", "t", " ", "x">>
    /\ executing("Loop")
    /\ Len(stack[1]) = 2
    /\ Len(diagnostics) = MaxLog
    /\ output = <<>>

\* the keywords of the language
LanguageKeywords ==
    {<<"w", "i", "t", "h">>, <<"s", "e", "t">>, <<"a", "s">>, <<"t", "o">>, <<"t", "h", "e", "n">>, <<"d", "o">>, <<"p", "r", "i", "n", "t">>, <<"w", "h", "e", "r", "e">>,
     <<"o", "t", "h", "e", "r", "w", "i", "s", "e">>, <<"l", "o", "o", "p">>, <<"i", "t", "e", "r">>}

\* the line is one alphanumeric/underscore run that starts with a letter
is_word_run(line) ==
    /\ line # <<>>
    /\ is_alphabetic(line[1])
    /\ \A i \in 1..Len(line) : is_alphanumeric(line[i]) \/ line[i] = "_"

(***************************************************************************)
(* C12.  The scanner classifies a maximal alphanumeric/underscore run that *)
(* starts with a letter as a Keyword token if and only if its text is one   *)
(* of with, set, as, to, then, do, print, where, otherwise, loop, iter;     *)
(* every other such run (in, true, false, ...) is an Identifier token.      *)
(***************************************************************************)
C12_KeywordIffListed ==
    (lines_read > 0 /\ is_word_run(input))
        => get_next_token(lexer_new(input)).token =
                IF input \in LanguageKeywords THEN Keyword(input) ELSE Identifier(input)

\* clarice_eval has parsed the line and interpret is about to execute the
\* first statement of the program
parsed == phase = "eval" /\ stack = <<program>>

\* the parser on the first, second and third token of the line
AtFirstToken == parser_new(lexer_new(input))
AtSecondToken == parser_advance(AtFirstToken)
AtThirdToken == parser_advance(AtSecondToken)

\* the line starts with the keyword of a statement constructor and what
\* follows is not the Identifier the constructor expects
MissingIdentifier ==
    /\ parsed
    /\ AtFirstToken.current_token.type = "Keyword"
    /\ AtFirstToken.current_token.text \in {<<"w", "i", "t", "h">>, <<"s", "e", "t">>, <<"a", "s">>, <<"t", "o">>, <<"i", "t", "e", "r">>}
    /\ AtSecondToken.current_token.type # "Identifier"

\* the line starts with `set`, a variable, and something that is not `to`
MissingTo ==
    /\ parsed
    /\ AtFirstToken.current_token = Keyword(<<"s", "e", "t">>)
    /\ AtSecondToken.current_token.type = "Identifier"
    /\ AtThirdToken.current_token # Keyword(<<"t", "o">>)

\* the node a statement constructor returns for a malformed statement
SyntheticNode(keyword) ==
    CASE keyword = <<"w", "i", "t", "h">> ->
            WithStatement(<<"e", "r", "r", "o", "r">>, StringLiteralExpr(<<"N", "o", " ", "E", "x", "p", "r", "e", "s", "s", "i", "o", "n", " ", "(", "W", "i", "t", "h", ")">>))
      [] keyword = <<"s", "e", "t">> ->
            SetStatement(<<"e", "r", "r", "o", "r">>, StringLiteralExpr(<<"N", "o", " ", "E", "x", "p", "r", "e", "s", "s", "i", "o", "n", " ", "(", "S", "e", "t", ")">>))
      [] keyword = <<"a", "s">> ->
            AsStatement(<<"e", "r", "r", "o", "r">>, StringLiteralExpr(<<"N", "o", " ", "E", "x", "p", "r", "e", "s", "s", "i", "o", "n", " ", "(", "A", "s", ")">>))
      [] keyword = <<"t", "o">> ->
            ToStatement(<<"e", "r", "r", "o", "r">>, StringLiteralExpr(<<"N", "o", " ", "E", "x", "p", "r", "e", "s", "s", "i", "o", "n", " ", "(", "T", "o", ")">>))
      [] keyword = <<"i", "t", "e", "r">> ->
            IterStatement(<<"e", "r", "r", "o", "r">>, StringLiteralExpr(<<"N", "o", " ", "I", "t", "e", "r", "a", "b", "l", "e", " ", "(", "I", "t", "e", "r", ")">>),
                          StringLiteralExpr(<<"N", "o", " ", "I", "d", "e", "n", "t", "i", "f", "i", "e", "r", " ", "(", "I", "t", "e", "r", ")", ".">>))

\* the diagnostic a statement constructor prints when the Identifier is missing
MissingIdentifierMessage(keyword) ==
    CASE keyword = <<"w", "i", "t", "h">> -> "Expected identifier after 'with' keyword"
      [] keyword = <<"s", "e", "t">> -> "Expected identifier after 'set' keyword"
      [] keyword = <<"a", "s">> -> "Expected identifier after 'as' keyword"
      [] keyword = <<"t", "o">> -> "Expected identifier after 'to' keyword"
      [] keyword = <<"i", "t", "e", "r">> -> "Expected identifier after 'iter' keyword"

(***************************************************************************)
(* C13, as stated.  When the token after the keyword of with, set, as, to  *)
(* or iter is not the expected Identifier, or no `to` follows the variable  *)
(* of set, the parser puts exactly one placeholder Print of a string in the *)
(* place of the malformed statement and resumes at the token after the      *)
(* offending one.                                                           *)
(***************************************************************************)
C13_PlaceholderPrintSubstituted ==
    /\ MissingIdentifier
          => /\ program # <<>>
             /\ program[1].kind = "Print"
             /\ program[1].expression.kind = "StringLiteral"
             /\ Tail(program) = parse_program(AtThirdToken).node
    /\ MissingTo
          => /\ program # <<>>
             /\ program[1].kind = "Print"
             /\ program[1].expression.kind = "StringLiteral"
             /\ Tail(program) = parse_program(parser_advance(AtThirdToken)).node

(***************************************************************************)
(* C13, amended.  When the token after the keyword of with, set, as, to or *)
(* iter is not the expected Identifier, or no `to` follows the variable of  *)
(* set, the parser prints one diagnostic and puts a node of the statement's *)
(* own kind, with the name `error` and placeholder string expressions, in   *)
(* the place of the malformed statement; the offending token is not         *)
(* consumed: the rest of the program is what parsing from the offending     *)
(* token on gives.                                                          *)
(***************************************************************************)
C13_SyntheticNodeSubstituted ==
    /\ MissingIdentifier
          => /\ program # <<>>
             /\ program[1] = SyntheticNode(AtFirstToken.current_token.text)
             /\ Tail(program) = parse_program(AtSecondToken).node
             /\ has_prefix(diagnostics,
                    <<[stream |-> "stdout",
                       msg |-> MissingIdentifierMessage(AtFirstToken.current_token.text)]>>
                        \o parse_program(AtSecondToken).parser.log)
    /\ MissingTo
          => /\ program # <<>>
             /\ program[1] = SyntheticNode(<<"s", "e", "t">>)
             /\ Tail(program) = parse_program(AtThirdToken).node
             /\ has_prefix(diagnostics,
                    <<[stream |-> "stdout", msg |-> "Expected 'to' after variable name"]>>
                        \o parse_program(AtThirdToken).parser.log)

\* `with 1` has been parsed: the With is the synthetic one, and the 1 it
\* rejected was parsed again, as a statement of its own
C13_Witness ==
    /\ parsed
    /\ input = <<"w", "i", "t", "h", " ", "1">>
    /\ program = <<WithStatement(<<"e", "r", "r", "o", "r">>, StringLiteralExpr(<<"N", "o", " ", "E", "x", "p", "r", "e", "s", "s", "i", "o", "n", " ", "(", "W", "i", "t", "h", ")">>)),
                   PrintStatement(StringLiteralExpr(<<"N", "o", " ", "S", "t", "a", "t", "e", "m", "e", "n", "t", ".">>))>>
    /\ Len(stdout_diagnostics) = 2

\* the number of tokens the scanner still returns before EndOfInput
RECURSIVE tokens_from(_)
tokens_from(l) ==
    Bind(get_next_token(l), LAMBDA next :
        IF next.token.type = "EOF" THEN 0 ELSE 1 + tokens_from(next.lexer))

\* the number of tokens the parser has not consumed yet, the current one included
tokens_left(p) ==
    IF p.current_token.type = "EOF" THEN 0 ELSE 1 + tokens_from(p.lexer)

\* the number of tokens each parse_statement call of parse_program consumes,
\* for a parser that has left tokens before it
RECURSIVE statement_tokens(_, _)
statement_tokens(p, left) ==
    IF p.current_token.type = "EOF" THEN <<>>
    ELSE Bind(parse_statement(p).parser, LAMBDA rest :
         Bind(tokens_left(rest), LAMBDA rest_left :
             <<left - rest_left>> \o statement_tokens(rest, rest_left)))

RECURSIVE sum(_)
sum(counts) == IF counts = <<>> THEN 0 ELSE Head(counts) + sum(Tail(counts))

(***************************************************************************)
(* C14.  Parsing a line terminates with the whole line consumed: every     *)
(* parse_statement call of parse_program consumes at least one token,       *)
(* parse_program returns with EndOfInput as the current token, the scanner  *)
(* keeps returning EndOfInput after that, and the statements of the         *)
(* resulting program account for every token of the line, each statement    *)
(* for the tokens its own call consumed.                                    *)
(***************************************************************************)
C14_ParsingConsumesInput ==
    parsed
        => LET start == AtFirstToken
               whole == parse_program(start)
               tokens == tokens_left(start)
               counts == statement_tokens(start, tokens)
           IN  /\ whole.parser.current_token = EOF
               /\ get_next_token(whole.parser.lexer).token = EOF
               /\ parser_advance(whole.parser).current_token = EOF
               /\ program = whole.node
               /\ Len(counts) = Len(program)
               /\ \A i \in 1..Len(counts) : counts[i] >= 1
               /\ sum(counts) = tokens

\* `then then then` has been parsed: one statement took all three tokens,
\* the innermost Then finding EndOfInput where it expected a statement
C14_Witness ==
    /\ parsed
    /\ input = <<"t", "h", "e", "n", " ", "t", "h", "e", "n", " ", "t", "h", "e", "n">>
    /\ tokens_left(AtFirstToken) = 3
    /\ program = <<ThenStatement(ThenStatement(ThenStatement(
                        PrintStatement(StringLiteralExpr(<<"N", "o", " ", "S", "t", "a", "t", "e", "m", "e", "n", "t", ".">>)))))>>

\* the current statement evaluates, as its own expression, an Identifier
\* that has no entry in the Environment
evaluates_absent(kind) ==
    /\ executing(kind)
    /\ statement.expression.kind = "Identifier"
    /\ statement.expression.name \notin DOMAIN variables

\* the run goes on with the statement after the current one
continues == phase' = "eval" /\ stack' = next_statement

\* the Environment after the step is the one before it, with name bound to Void
only_bound_to_void(name) ==
    /\ DOMAIN variables' = DOMAIN variables \cup {name}
    /\ variables'[name] = Void
    /\ \A other \in DOMAIN variables \ {name} : variables'[other] = variables[other]

(***************************************************************************)
(* C15.  A recoverable runtime failure neither stops the run nor changes   *)
(* the store.  An Identifier absent from the Environment evaluates to Void: *)
(* a Print of it writes an empty line and a With or Set of it binds Void,   *)
(* the Environment being otherwise untouched.  A standalone As or To does   *)
(* nothing but log.  An Iter whose iterable is neither String, Integer nor  *)
(* List evaluates its body zero times and leaves the Environment as it was. *)
(* In each case the next statement of the sequence is executed next.        *)
(***************************************************************************)
C15_RecoverableFailuresContinue ==
    [][/\ evaluates_absent("Print")
            => /\ output' = Append(output, <<>>)
               /\ variables' = variables
               /\ Len(diagnostics') = Len(diagnostics) + 1
               /\ continues
       /\ evaluates_absent("With")
            => only_bound_to_void(statement.identifier) /\ output' = output /\ continues
       /\ evaluates_absent("Set")
            => only_bound_to_void(statement.variable) /\ output' = output /\ continues
       /\ (executing("As") \/ executing("To"))
            => /\ variables' = variables
               /\ output' = output
               /\ Len(diagnostics') = Len(diagnostics) + 1
               /\ continues
       /\ (/\ executing("Iter")
           /\ evaluate_expression(variables, statement.iterable).value.type
                 \notin {"String", "Integer", "List"})
            => /\ iterations' = 0
               /\ variables' = variables
               /\ output' = output
               /\ continues]_vars

\* `as x 1 print 1` has returned: the As logged its diagnostic and bound
\* nothing, and the Print after it wrote its line
C15_Witness ==
    /\ finished
    /\ input = <<"a", "s", " ", "x", " ", "1", " ", "p", "r", "i", "n", "t", " ", "1">>
    /\ variables = EmptyMap
    /\ Len(diagnostics) = 1
    /\ output = <<<<"1">>>>

(***************************************************************************)
(* C16.  Executing a Where whose condition evaluates to a non-Boolean      *)
(* value is reported as a runtime type violation: besides what evaluating   *)
(* the condition logs, a diagnostic is logged for the Where itself, and the *)
(* run goes on with the statement after the Where.                          *)
(***************************************************************************)
C16_NonBooleanWhereReported ==
    [][(/\ executing("Where")
        /\ evaluate_expression(variables, statement.condition).value.type # "Boolean")
          => /\ Len(diagnostics') >
                    Len(diagnostics)
                        + Len(evaluate_expression(variables, statement.condition).log)
             /\ continues]_vars

\* <<w>> when the statement is the Where w or a Then/Do around it, else <<>>
RECURSIVE inner_where(_)
inner_where(s) ==
    IF s.kind = "Where" THEN <<s>>
    ELSE IF s.kind \in {"Then", "Do"} THEN inner_where(s.statement)
    ELSE <<>>

\* in the sequence, and in every sequence nested in it, a Where (or a
\* Then/Do around one) is the last element
RECURSIVE where_only_last(_)
where_only_last(statements) ==
    \A i \in 1..Len(statements) :
        inner_where(statements[i]) # <<>>
            => /\ i = Len(statements)
               /\ where_only_last(inner_where(statements[i])[1].true_branch)
               /\ \A b \in 1..Len(inner_where(statements[i])[1].false_branch) :
                      where_only_last(inner_where(statements[i])[1].false_branch[b])

=============================================================================
